---- MODULE Spec2Model ----
(***************************************************************************)
(* lola: a Runner (client handle) that keeps one warm Python worker        *)
(* process alive and dispatches scripts to forked children of that worker  *)
(* over a multiprocessing connection (src/lola.py).                        *)
(*                                                                         *)
(* Processes: the caller of the Runner (client), the worker running        *)
(* listen(), and one forked child per job (run to completion inside the    *)
(* worker's Popen step: Popen.__init__ only returns once the child, which  *)
(* never execs, has exited).                                               *)
(*                                                                         *)
(* A descriptor is modelled by the open file description it refers to:     *)
(* sendfd/recvfd hand the same description to the other process.           *)
(*                                                                         *)
(* Specifications:                                                         *)
(*   Spec      the constructed Runner and its worker, every operation      *)
(*   LiveSpec  Spec with the worker scheduled on end-of-stream             *)
(*   FaultSpec from before Runner(), with the faults of the environment:   *)
(*             a worker that does not connect or is killed, a sendfd that  *)
(*             fails                                                       *)
(*   PipeSpec  one job with both streams captured, the child's writes and  *)
(*             the worker's reads step by step over bounded pipes          *)
(***************************************************************************)
EXTENDS Integers, Sequences, FiniteSets, TLC

\* ------------------------------------------------------------------ bounds
\* number of call/check_call/check_output operations issued on the handle
MaxCalls == 2
\* chunks an OS pipe holds before a write to it blocks
PipeCapacity == 2
\* chunks a job body writes to its two streams in the step-by-step model of
\* one job (PipeSpec)
MaxWrites == 4

\* --------------------------------------------------- subprocess sentinels
PIPE == -1
STDOUT == -2
\* Python's None in a stdio slot (an integer stand-in, so that slots compare)
NoFile == -3

\* ------------------------------------------------- open file descriptions
\* the worker's own standard streams, inherited by a child
WorkerStdin == 100
WorkerStdout == 101
WorkerStderr == 102
\* files the caller opened and passes as stdin= / stdout= / stderr=
CallerIn == 110
CallerOut == 111
CallerErr == 112
\* the pipes Popen creates for a PIPE slot
PipeOut == 121
PipeErr == 122
\* some other file open in the worker, which a descriptor number that recvfd
\* made up (no descriptor came with the byte it read) happens to name
WrongFile == 130

Descriptions ==
  {WorkerStdin, WorkerStdout, WorkerStderr, CallerIn, CallerOut, CallerErr,
   PipeOut, PipeErr, WrongFile}

\* ------------------------------------------------------------ environment
\* os.environ of the worker, as inherited when the Runner spawned it
WorkerEnviron == ("PARENT" :> "p") @@ ("K" :> "w")
\* env= arguments a caller passes: absent, or a mapping
NoEnv == [given |-> FALSE, map |-> <<>>]
EnvArgs ==
  { NoEnv,
    [given |-> TRUE, map |-> ("K" :> "v") @@ ("N" :> "n")],
    [given |-> TRUE, map |-> <<>>] }

\* ------------------------------------------------------ working directory
\* the directory the worker was started in, and its sys.argv ([__file__,
\* listener.address])
WorkerCwd == "/worker"
WorkerArgv == <<"lola.py", "address">>
\* cwd= arguments a caller passes: absent (None), or a directory
NoCwd == ""
JobCwd == "/job"
CwdArgs == {NoCwd, JobCwd}

\* ---------------------------------------------------------------- job bodies
\* how the script run by execfile() terminates
Normal == [kind |-> "normal", code |-> 0]
ExitNone == [kind |-> "exit_none", code |-> 0]
ExitReason == [kind |-> "exit_reason", code |-> 0]
Fault == [kind |-> "fault", code |-> 0]
ExitInt(n) == [kind |-> "exit_int", code |-> n]

\* what a script does: its writes in program order, then how it terminates
Body(script) ==
  CASE script = "success"   -> [writes |-> <<>>, term |-> Normal]
    [] script = "output"    -> [writes |-> << <<"out", "o">>, <<"err", "e">> >>,
                                term |-> Normal]
    [] script = "fail"      -> [writes |-> << <<"out", "f">> >>, term |-> ExitInt(1)]
    [] script = "exception" -> [writes |-> << <<"out", "x">> >>, term |-> Fault]
    [] script = "reason"    -> [writes |-> <<>>, term |-> ExitReason]
    [] script = "exit0"     -> [writes |-> << <<"err", "e">> >>, term |-> ExitInt(0)]
    [] script = "exit255"   -> [writes |-> <<>>, term |-> ExitInt(255)]
    [] script = "exit256"   -> [writes |-> <<>>, term |-> ExitInt(256)]
    [] script = "outflush"  -> [writes |-> << <<"out", "o">>, <<"flush", "">>,
                                              <<"err", "e">> >>,
                                term |-> ExitNone]

Scripts ==
  {"success", "output", "fail", "exception", "reason", "outflush", "exit0",
   "exit255", "exit256"}

\* text exec_python itself puts on the job's stderr
ReasonText == "reason"
Traceback == "traceback"


\* ------------------------------------------------------------ caller inputs
Ops == {"call", "check_call", "check_output"}
StdinArgs == {NoFile, CallerIn}
StdoutArgs == {NoFile, PIPE, CallerOut}
StderrArgs == {NoFile, PIPE, STDOUT, CallerErr}

\* the keyword arguments of one call (the other Popen arguments keep their
\* defaults); check_output is called without stdout=, as its docstring demands.
\* With shell=True, _PyPopen raises before it reads the script or env, so those
\* requests vary in their stdio slots only. env= is read by nothing but
\* exec_python's replacement of os.environ and cwd= by nothing but the child's
\* chdir, so the requests that give one of them vary in these two only.
CallArgs(op) ==
  [script : Scripts,
   stdin : StdinArgs,
   stdout : IF op = "check_output" THEN {NoFile} ELSE StdoutArgs,
   stderr : StderrArgs,
   shell : {FALSE},
   env : {NoEnv},
   cwd : {NoCwd}]
  \cup
  [script : {"success"},
   stdin : StdinArgs,
   stdout : IF op = "check_output" THEN {NoFile} ELSE StdoutArgs,
   stderr : StderrArgs,
   shell : {TRUE},
   env : {NoEnv},
   cwd : {NoCwd}]
  \cup
  [script : {"success"},
   stdin : {NoFile},
   stdout : {NoFile},
   stderr : {NoFile},
   shell : {FALSE},
   env : EnvArgs,
   cwd : CwdArgs]

NullArgs ==
  [script |-> "", stdin |-> NoFile, stdout |-> NoFile, stderr |-> NoFile,
   shell |-> FALSE, env |-> NoEnv, cwd |-> NoCwd]

\* ------------------------------------------------------------------ values
NoBytes == [some |-> FALSE, data |-> <<>>]
Bytes(d) == [some |-> TRUE, data |-> d]

\* the (retcode, stdout, stderr) tuple the worker sends back
NullResult == [retcode |-> 0, stdout |-> NoBytes, stderr |-> NoBytes]

\* how an operation of the Runner ended for its caller
NoOutcome == [kind |-> "none", exc |-> "", code |-> 0, out |-> NoBytes]
Pending == [kind |-> "pending", exc |-> "", code |-> 0, out |-> NoBytes]
ReturnNone == [kind |-> "return_none", exc |-> "", code |-> 0, out |-> NoBytes]
ReturnInt(n) == [kind |-> "return_int", exc |-> "", code |-> n, out |-> NoBytes]
ReturnBytes(b) == [kind |-> "return_bytes", exc |-> "", code |-> 0, out |-> b]
Raise(e) == [kind |-> "raise", exc |-> e, code |-> 0, out |-> NoBytes]
\* subprocess.CalledProcessError(retcode, cmd), with its output attribute
CalledProcessError(n, b) ==
  [kind |-> "raise", exc |-> "CalledProcessError", code |-> n, out |-> b]

\* ValueError('Runner is closed')
RunnerClosed == "ValueError: Runner is closed"

NoChild ==
  [forked |-> FALSE, stdio |-> <<NoFile, NoFile, NoFile>>, environ |-> <<>>,
   cwd |-> "", argv |-> <<>>, term |-> Normal, status |-> 0]

NoWrites == [d \in Descriptions |-> <<>>]

\* the two pipes of a job with stdout=PIPE and stderr=PIPE, both empty
NoPipes == [d \in {PipeOut, PipeErr} |-> 0]

\* ------------------------------------------------------- Runner._call: mkfd
\* (mutant) mkfd returning len(fds) instead of len(fds) - 1
mkfdOffByOne(fds, fp) ==
  IF fp \in {NoFile, STDOUT, PIPE}
    THEN [fds |-> fds, slot |-> fp]
    ELSE [fds |-> Append(fds, fp), slot |-> Len(Append(fds, fp))]

\* mkfd(fp) on the list fds: a sentinel passes through, a file is appended to
\* fds and replaced by its index in fds
mkfd(fds, fp) ==
  IF fp \in {NoFile, STDOUT, PIPE}
    THEN [fds |-> fds, slot |-> fp]
    ELSE [fds |-> Append(fds, fp), slot |-> Len(Append(fds, fp)) - 1]

\* stdin = mkfd(stdin); stdout = mkfd(stdout); stderr = mkfd(stderr)
MakeFds(stdin, stdout, stderr) ==
  LET a == mkfd(<<>>, stdin)
      b == mkfd(a.fds, stdout)
      c == mkfd(b.fds, stderr)
  IN  [fds |-> c.fds, stdin |-> a.slot, stdout |-> b.slot, stderr |-> c.slot]

\* the arguments _call works on: check_output adds stdout=subprocess.PIPE
CallKwargs(op, kw) ==
  IF op = "check_output" THEN [kw EXCEPT !.stdout = PIPE] ELSE kw

\* the tuple ((args, ..., stdin, stdout, stderr, ..., shell, cwd, env, ...),
\* len(fds)) that _call sends
Envelope(kw) ==
  LET m == MakeFds(kw.stdin, kw.stdout, kw.stderr)
  IN  [type |-> "req",
       args |-> [kw EXCEPT !.stdin = m.stdin, !.stdout = m.stdout,
                           !.stderr = m.stderr],
       num_fds |-> Len(m.fds),
       fd |-> NoFile]

\* one descriptor travelling as ancillary data (sendfd)
FdMessage(fd) == [type |-> "fd", args |-> NullArgs, num_fds |-> 0, fd |-> fd]

\* ------------------------------------------------ _PyPopen.__init__: _fd_map
\* fds = dict((idx, recvfd(...)) for idx in range(num_fds))
FdMap(received) == [idx \in 0 .. (Len(received) - 1) |-> received[idx + 1]]

\* _fd_map.get(slot, slot)
FdMapGet(fd_map, slot) == IF slot \in DOMAIN fd_map THEN fd_map[slot] ELSE slot

\* the streams Popen gives the child for (stdin, stdout, stderr) after the
\* _fd_map lookup: None inherits, PIPE is a fresh pipe, STDOUT is the child's
\* stdout, anything else is the descriptor itself
ChildStdio(args, fd_map) ==
  LET stdin == FdMapGet(fd_map, args.stdin)
      stdout == FdMapGet(fd_map, args.stdout)
      stderr == FdMapGet(fd_map, args.stderr)
      p2cread == IF stdin = NoFile THEN WorkerStdin ELSE stdin
      c2pwrite == CASE stdout = NoFile -> WorkerStdout
                    [] stdout = PIPE -> PipeOut
                    [] OTHER -> stdout
      errwrite == CASE stderr = NoFile -> WorkerStderr
                    [] stderr = PIPE -> PipeErr
                    [] stderr = STDOUT -> c2pwrite
                    [] OTHER -> stderr
  IN  <<p2cread, c2pwrite, errwrite>>

\* ------------------------------------------------------------- exec_python
\* (mutant) os.environ.update(env) without the deleting loop
MergeEnviron(environ, env) ==
  [k \in DOMAIN environ \cup DOMAIN env |->
     IF k \in DOMAIN env THEN env[k] ELSE environ[k]]

\* for key in list(os.environ): if key not in env: del os.environ[key]
\* os.environ.update(env)
ReplaceEnviron(environ, env) ==
  LET kept == {k \in DOMAIN environ : k \in DOMAIN env}
  IN  [k \in kept \cup DOMAIN env |-> env[k]]

\* if env is not None: ...
ChildEnviron(environ, env) ==
  IF env.given THEN ReplaceEnviron(environ, env.map) ELSE environ

\* os._exit(n): the status the parent's wait() sees is the low 8 bits
OsExit(n) == n % 256

\* (mutant) an unhandled exception exiting 1, as the interpreter itself would
ExitStatusFaultIsOne(term) ==
  CASE term.kind = "exit_int" -> OsExit(term.code)
    [] term.kind = "exit_none" -> OsExit(0)
    [] term.kind = "exit_reason" -> OsExit(1)
    [] term.kind = "fault" -> OsExit(1)
    [] term.kind = "normal" -> OsExit(0)

\* the except SystemExit / except / else arms around execfile()
ExitStatus(term) ==
  CASE term.kind = "exit_int" -> OsExit(term.code)
    [] term.kind = "exit_none" -> OsExit(0)
    [] term.kind = "exit_reason" -> OsExit(1)
    [] term.kind = "fault" -> OsExit(255)
    [] term.kind = "normal" -> OsExit(0)

\* what exec_python prints on sys.stderr after flushing sys.stdout
StderrEpilogue(term) ==
  CASE term.kind = "exit_reason" -> <<ReasonText>>
    [] term.kind = "fault" -> <<Traceback>>
    [] OTHER -> <<>>

\* the script's writes: sys.stdout is a buffered file on descriptor 1, flushed
\* by the script ("flush") or by exec_python at exit; sys.stderr is unbuffered
RECURSIVE RunWrites(_, _, _, _)
RunWrites(writes, stdio, buf, w) ==
  IF writes = <<>>
    THEN [buf |-> buf, w |-> w]
    ELSE LET h == Head(writes)
         IN  CASE h[1] = "out" ->
                    RunWrites(Tail(writes), stdio, Append(buf, h[2]), w)
               [] h[1] = "err" ->
                    RunWrites(Tail(writes), stdio, buf,
                              [w EXCEPT ![stdio[3]] = Append(@, h[2])])
               [] h[1] = "flush" ->
                    RunWrites(Tail(writes), stdio, <<>>,
                              [w EXCEPT ![stdio[2]] = @ \o buf])

\* (mutant) exec_python without its sys.stdout.flush() before os._exit
ChildWritesNoFlush(script, stdio, w) ==
  LET r == RunWrites(Body(script).writes, stdio, <<>>, w)
  IN  [r.w EXCEPT ![stdio[3]] = @ \o StderrEpilogue(Body(script).term)]

\* everything the child delivers to its streams: the script's writes, then
\* sys.stdout.flush(), then the reason or the traceback on stderr
ChildWrites(script, stdio, w) ==
  LET r == RunWrites(Body(script).writes, stdio, <<>>, w)
      flushed == [r.w EXCEPT ![stdio[2]] = @ \o r.buf]
  IN  [flushed EXCEPT ![stdio[3]] = @ \o StderrEpilogue(Body(script).term)]

\* if cwd is not None: os.chdir(cwd) -- in the child, before preexec_fn
ChildCwd(cwd, arg) == IF arg = NoCwd THEN cwd ELSE arg

\* the forked child from fork to os._exit: it starts as a copy of the worker
\* (environ, cwd) and changes its own copy
exec_python(args, fd_map, environ, cwd) ==
  [forked |-> TRUE,
   stdio |-> ChildStdio(args, fd_map),
   environ |-> ChildEnviron(environ, args.env),
   cwd |-> ChildCwd(cwd, args.cwd),
   argv |-> <<args.script>>,
   term |-> Body(args.script).term,
   status |-> ExitStatus(Body(args.script).term)]

\* proc.communicate(); proc.poll(): the bytes of the PIPE slots and the status
Communicate(args, c, w) ==
  [retcode |-> c.status,
   stdout |-> IF args.stdout = PIPE THEN Bytes(w[PipeOut]) ELSE NoBytes,
   stderr |-> IF args.stderr = PIPE THEN Bytes(w[PipeErr]) ELSE NoBytes]

\* ------------------------------------------- call / check_call / check_output
\* what the operation does with the (retcode, stdout, stderr) it received

\* (mutant) call() that checks the return code as check_call() does
callChecks(result) ==
  IF result.retcode # 0
    THEN CalledProcessError(result.retcode, NoBytes)
    ELSE ReturnInt(result.retcode)

call(result) == ReturnInt(result.retcode)

\* (mutant) check_call() without its `if retcode:` arm
check_callNoRaise(result) == ReturnInt(result.retcode)

check_call(result) ==
  IF result.retcode # 0
    THEN CalledProcessError(result.retcode, NoBytes)
    ELSE ReturnInt(result.retcode)

\* (mutant) check_output() without `err.output = stdout`
check_outputNoAttr(result) ==
  IF result.retcode # 0
    THEN CalledProcessError(result.retcode, NoBytes)
    ELSE ReturnBytes(result.stdout)

check_output(result) ==
  IF result.retcode # 0
    THEN CalledProcessError(result.retcode, result.stdout)
    ELSE ReturnBytes(result.stdout)

Finish(op, result) ==
  CASE op = "call" -> call(result)
    [] op = "check_call" -> check_call(result)
    [] op = "check_output" -> check_output(result)

\* ------------------------------------------------------------------- state
VARIABLES
  cnx,          \* Runner._cnx: "Connection" or "None" ("Unset" before
                \* __init__ assigns it)
  listener,     \* Runner._listener: "Listener" or "None" ("Unset" likewise)
  c_pc,         \* the caller: "idle", or inside _call at "sendfd" / "recv";
                \* in FaultSpec also "new", "accept" (inside __init__) and
                \* "failed" (__init__ raised)
  c_op,         \* the operation the caller is inside ("" when idle)
  c_kw,         \* its keyword arguments (NullArgs when idle)
  c_fds,        \* _call's fds still to be passed with sendfd
  outcome,      \* how the caller's latest operation ended
  lastOp,       \* the latest operation started: "close", "call", ...
  nCalls,       \* call/check_call/check_output operations started
  nCloses,      \* close() executions that completed without raising
  scope,        \* "none", "body" (inside `with Runner()`), "left"
  bodyExc,      \* the exception the with-body raised ("" if none)
  blockOutcome, \* how the with statement ended for its caller
  c2w,          \* control channel, caller to worker: envelopes, descriptors
  w2c,          \* control channel, worker to caller: results
  workerEnd,    \* the worker's end of the connection is open
  w_pc,         \* listen(): "recv", "recvfd", "popen", "send", "exited",
                \* "crashed"; "unspawned", "start" and "killed" appear only
                \* with construction and faults (FaultSpec)
  w_args,       \* listen(): args
  w_num_fds,    \* listen(): num_fds
  w_fds,        \* listen(): descriptors received so far for fds
  w_result,     \* listen(): (retcode, stdout, stderr)
  environ,      \* os.environ of the worker
  child,        \* the forked child of the job being served, until its
                \* result is sent
  written,      \* bytes that child delivered to each open file description
  nSpawned,     \* worker processes Runner.__init__ has spawned
  backlog,      \* connections made to the listener and not yet accepted
  w_nopen,      \* descriptors the worker received with recvfd and has open
                \* (none once the process has ended)
  customised,   \* a job given both env= and cwd= has been run
  cwd,          \* the worker's working directory
  sys_argv,     \* the worker's sys.argv
  par_pc,       \* the worker inside _PyPopen(...) / communicate(), step by
                \* step: "none", "fork", "errpipe", "communicate", "done"
  ch_pc,        \* the child of that job: "none", "running", "exited"
  ch_todo,      \* the writes that child still has to make (pipe by pipe)
  pipes,        \* bytes held in each of the job's two pipes
  captured      \* bytes communicate() has read from each pipe

vars ==
  <<cnx, listener, c_pc, c_op, c_kw, c_fds, outcome, lastOp, nCalls, nCloses,
    scope, bodyExc, blockOutcome, c2w, w2c, workerEnd, w_pc, w_args,
    w_num_fds, w_fds, w_result, environ, child, written, nSpawned, backlog,
    w_nopen, customised, cwd, sys_argv, par_pc, ch_pc, ch_todo, pipes,
    captured>>

ctorVars == <<nSpawned, backlog>>
processVars == <<cwd, sys_argv>>
pipeVars == <<par_pc, ch_pc, ch_todo, pipes, captured>>
clientVars ==
  <<cnx, listener, c_pc, c_op, c_kw, c_fds, outcome, lastOp, nCalls, nCloses,
    scope, bodyExc, blockOutcome, ctorVars>>
workerVars ==
  <<w_pc, w_args, w_num_fds, w_fds, w_result, environ, child, written,
    w_nopen, customised, processVars, pipeVars>>
scopeVars == <<scope, bodyExc, blockOutcome>>

\* Runner.__init__ has returned: the worker is spawned and connected, and
\* listen() is about to call cnx.recv()
Init ==
  /\ cnx = "Connection"
  /\ listener = "Listener"
  /\ c_pc = "idle"
  /\ c_op = ""
  /\ c_kw = NullArgs
  /\ c_fds = <<>>
  /\ outcome = NoOutcome
  /\ lastOp = ""
  /\ nCalls = 0
  /\ nCloses = 0
  /\ scope = "none"
  /\ bodyExc = ""
  /\ blockOutcome = NoOutcome
  /\ c2w = <<>>
  /\ w2c = <<>>
  /\ workerEnd = TRUE
  /\ w_pc = "recv"
  /\ w_args = NullArgs
  /\ w_num_fds = 0
  /\ w_fds = <<>>
  /\ w_result = NullResult
  /\ environ = WorkerEnviron
  /\ child = NoChild
  /\ written = NoWrites
  /\ nSpawned = 1
  /\ backlog = 0
  /\ w_nopen = 0
  /\ customised = FALSE
  /\ cwd = WorkerCwd
  /\ sys_argv = WorkerArgv
  /\ par_pc = "none"
  /\ ch_pc = "none"
  /\ ch_todo = <<>>
  /\ pipes = NoPipes
  /\ captured = NoPipes

\* ------------------------------------------------------------------ Runner
\* (mutant) _expect_connected() that never raises
ExpectConnectedNever == FALSE

\* _expect_connected(): raises ValueError('Runner is closed')
ExpectConnectedRaises == cnx = "None"

\* Runner.close()
Close ==
  /\ c_pc = "idle"
  /\ lastOp' = "close"
  /\ IF ExpectConnectedRaises
       THEN /\ outcome' = Raise(RunnerClosed)
            /\ UNCHANGED <<cnx, listener, nCloses>>
       ELSE /\ cnx' = "None"
            /\ listener' = "None"
            /\ nCloses' = nCloses + 1
            /\ outcome' = ReturnNone
  /\ UNCHANGED <<c_pc, c_op, c_kw, c_fds, nCalls, scopeVars, c2w, w2c,
                 workerEnd, workerVars, ctorVars>>

\* `with Runner() as runner:` __enter__ on the fresh handle
Enter ==
  /\ scope = "none"
  /\ c_pc = "idle"
  /\ lastOp = ""
  /\ scope' = "body"
  /\ UNCHANGED <<cnx, listener, c_pc, c_op, c_kw, c_fds, outcome, lastOp,
                 nCalls, nCloses, bodyExc, blockOutcome, c2w, w2c, workerEnd,
                 workerVars, ctorVars>>

\* exceptions the with-body can end with: none, one of its own, or the one
\* its latest Runner operation raised
BodyExceptions ==
  {"", "KeyError"} \cup (IF outcome.kind = "raise" THEN {outcome.exc} ELSE {})

\* (mutant) __exit__ returning a true value: the body's exception is swallowed
ExitOutcomeSwallows(exc) == ReturnNone

\* __exit__ returned None (a false value): the with statement re-raises the
\* body's exception, if there was one
ExitOutcome(exc) == IF exc = "" THEN ReturnNone ELSE Raise(exc)

\* the with statement ends: __exit__(*args) calls self.close(); when close()
\* raises, that exception is the one the with statement ends with
Exit(exc) ==
  /\ scope = "body"
  /\ c_pc = "idle"
  /\ scope' = "left"
  /\ bodyExc' = exc
  /\ IF ExpectConnectedRaises
       THEN /\ blockOutcome' = Raise(RunnerClosed)
            /\ UNCHANGED <<cnx, listener, nCloses>>
       ELSE /\ cnx' = "None"
            /\ listener' = "None"
            /\ nCloses' = nCloses + 1
            /\ blockOutcome' = ExitOutcome(exc)
  /\ UNCHANGED <<c_pc, c_op, c_kw, c_fds, outcome, lastOp, nCalls, c2w, w2c,
                 workerEnd, workerVars, ctorVars>>

\* call / check_call / check_output up to and including cnx.send(...)
Call(op, kw) ==
  /\ c_pc = "idle"
  /\ nCalls < MaxCalls
  /\ nCalls' = nCalls + 1
  /\ lastOp' = op
  /\ IF ExpectConnectedRaises
       THEN /\ outcome' = Raise(RunnerClosed)
            /\ UNCHANGED <<c_pc, c_op, c_kw, c_fds, c2w>>
       ELSE IF ~workerEnd
         THEN \* the peer is gone: send() fails with EPIPE
              /\ outcome' = Raise("IOError")
              /\ UNCHANGED <<c_pc, c_op, c_kw, c_fds, c2w>>
         ELSE LET kwargs == CallKwargs(op, kw)
                  fds == MakeFds(kwargs.stdin, kwargs.stdout, kwargs.stderr).fds
              IN  /\ c2w' = Append(c2w, Envelope(kwargs))
                  /\ c_fds' = fds
                  /\ c_pc' = IF fds = <<>> THEN "recv" ELSE "sendfd"
                  /\ c_op' = op
                  /\ c_kw' = kwargs
                  /\ outcome' = Pending
  /\ UNCHANGED <<cnx, listener, nCloses, scopeVars, w2c, workerEnd,
                 workerVars, ctorVars>>

\* for fd in fds: _multiprocessing.sendfd(self._cnx.fileno(), fd)
SendFd ==
  /\ c_pc = "sendfd"
  /\ IF ~workerEnd
       THEN \* the peer is gone: sendmsg() fails with EPIPE
            /\ outcome' = Raise("OSError")
            /\ c_fds' = <<>>
            /\ c_pc' = "idle"
            /\ c_op' = ""
            /\ c_kw' = NullArgs
            /\ c2w' = c2w
       ELSE /\ c2w' = Append(c2w, FdMessage(Head(c_fds)))
            /\ c_fds' = Tail(c_fds)
            /\ c_pc' = IF Tail(c_fds) = <<>> THEN "recv" ELSE "sendfd"
            /\ UNCHANGED <<c_op, c_kw, outcome>>
  /\ UNCHANGED <<cnx, listener, lastOp, nCalls, nCloses, scopeVars, w2c,
                 workerEnd, workerVars, ctorVars>>

\* (mutant) a call that closes the handle when it ends with EOFError
RecvClosesOnEof ==
  /\ c_pc = "recv"
  /\ \/ /\ w2c # <<>>
        /\ outcome' = Finish(c_op, Head(w2c))
        /\ w2c' = Tail(w2c)
        /\ UNCHANGED <<cnx, listener>>
     \/ /\ w2c = <<>>
        /\ ~workerEnd
        /\ outcome' = Raise("EOFError")
        /\ w2c' = w2c
        /\ cnx' = "None"
        /\ listener' = "None"
  /\ c_pc' = "idle"
  /\ c_op' = ""
  /\ c_kw' = NullArgs
  /\ UNCHANGED <<c_fds, lastOp, nCalls, nCloses, scopeVars, c2w, workerEnd,
                 workerVars, ctorVars>>

\* (mutant) a recv() that keeps waiting when the worker's end is gone
RecvWaitsOn ==
  /\ c_pc = "recv"
  /\ w2c # <<>>
  /\ outcome' = Finish(c_op, Head(w2c))
  /\ w2c' = Tail(w2c)
  /\ c_pc' = "idle"
  /\ c_op' = ""
  /\ c_kw' = NullArgs
  /\ UNCHANGED <<cnx, listener, c_fds, lastOp, nCalls, nCloses, scopeVars,
                 c2w, workerEnd, workerVars, ctorVars>>

\* return self._cnx.recv(), and what the operation makes of it
Recv ==
  /\ c_pc = "recv"
  /\ \/ /\ w2c # <<>>
        /\ outcome' = Finish(c_op, Head(w2c))
        /\ w2c' = Tail(w2c)
     \/ /\ w2c = <<>>
        /\ ~workerEnd
        /\ outcome' = Raise("EOFError")
        /\ w2c' = w2c
  /\ c_pc' = "idle"
  /\ c_op' = ""
  /\ c_kw' = NullArgs
  /\ UNCHANGED <<cnx, listener, c_fds, lastOp, nCalls, nCloses, scopeVars,
                 c2w, workerEnd, workerVars, ctorVars>>

\* ------------------------------------------------------------------ listen
\* args, num_fds = cnx.recv()
WorkerRecv ==
  /\ w_pc = "recv"
  /\ c2w # <<>>
  /\ Head(c2w).type = "req"
  /\ w_args' = Head(c2w).args
  /\ w_num_fds' = Head(c2w).num_fds
  /\ w_fds' = <<>>
  /\ c2w' = Tail(c2w)
  /\ w_pc' = IF Head(c2w).num_fds = 0 THEN "popen" ELSE "recvfd"
  /\ UNCHANGED <<clientVars, processVars, pipeVars, w_nopen, customised,
                 w2c, workerEnd, w_result, environ, child, written>>

\* (mutant) a worker that takes an idle channel for its end and leaves
WorkerEofWhenIdle ==
  /\ w_pc = "recv"
  /\ c2w = <<>>
  /\ w_pc' = "exited"
  /\ workerEnd' = FALSE
  /\ w_nopen' = 0
  /\ UNCHANGED <<clientVars, processVars, pipeVars, customised,
                 c2w, w2c, w_args, w_num_fds, w_fds, w_result,
                 environ, child, written>>

\* except EOFError: break -- the caller closed its end; listen() returns and
\* the worker process ends
WorkerEof ==
  /\ w_pc = "recv"
  /\ c2w = <<>>
  /\ cnx = "None"
  /\ w_pc' = "exited"
  /\ workerEnd' = FALSE
  /\ w_nopen' = 0
  /\ UNCHANGED <<clientVars, processVars, pipeVars, customised,
                 c2w, w2c, w_args, w_num_fds, w_fds, w_result,
                 environ, child, written>>

\* one _multiprocessing.recvfd(cnx.fileno()) of the dict's generator: a new
\* descriptor in the worker, which nothing in listen() closes
WorkerRecvFd ==
  /\ w_pc = "recvfd"
  /\ c2w # <<>>
  /\ Head(c2w).type = "fd"
  /\ w_fds' = Append(w_fds, Head(c2w).fd)
  /\ w_nopen' = w_nopen + 1
  /\ c2w' = Tail(c2w)
  /\ w_pc' = IF Len(w_fds) + 1 = w_num_fds THEN "popen" ELSE "recvfd"
  /\ UNCHANGED <<clientVars, processVars, pipeVars, customised,
                 w2c, workerEnd, w_args, w_num_fds, w_result,
                 environ, child, written>>

\* proc = _PyPopen(*args, _fd_map=fds) with shell set: raise ValueError(),
\* which nothing in listen() catches: the worker process dies with it
PopenShell ==
  /\ w_pc = "popen"
  /\ w_args.shell
  /\ w_pc' = "crashed"
  /\ workerEnd' = FALSE
  /\ w_args' = NullArgs
  /\ w_num_fds' = 0
  /\ w_fds' = <<>>
  /\ w_nopen' = 0
  /\ UNCHANGED <<clientVars, processVars, pipeVars, customised,
                 c2w, w2c, w_result, environ, child, written>>

\* (mutant) a worker that runs exec_python in its own process, not in a
\* forked child
PopenInProcess ==
  /\ w_pc = "popen"
  /\ ~w_args.shell
  /\ LET c == exec_python(w_args, FdMap(w_fds), environ, cwd)
         w == ChildWrites(w_args.script, c.stdio, NoWrites)
     IN  /\ child' = c
         /\ written' = w
         /\ w_result' = Communicate(w_args, c, w)
         /\ environ' = c.environ
         /\ cwd' = c.cwd
         /\ sys_argv' = c.argv
  /\ customised' = (customised \/ (w_args.env.given /\ w_args.cwd # NoCwd))
  /\ w_pc' = "send"
  /\ UNCHANGED <<clientVars, pipeVars, w_nopen, c2w, w2c, workerEnd, w_args,
                 w_num_fds, w_fds>>

\* proc = _PyPopen(*args, _fd_map=fds); stdout, stderr = proc.communicate();
\* retcode = proc.poll()
Popen ==
  /\ w_pc = "popen"
  /\ ~w_args.shell
  /\ LET c == exec_python(w_args, FdMap(w_fds), environ, cwd)
         w == ChildWrites(w_args.script, c.stdio, NoWrites)
     IN  /\ child' = c
         /\ written' = w
         /\ w_result' = Communicate(w_args, c, w)
  /\ customised' = (customised \/ (w_args.env.given /\ w_args.cwd # NoCwd))
  /\ w_pc' = "send"
  /\ UNCHANGED <<clientVars, processVars, pipeVars, w_nopen, c2w, w2c,
                 workerEnd, w_args, w_num_fds, w_fds, environ>>

\* (mutant) a worker that serves one request and leaves its loop
WorkerSendOnce ==
  /\ w_pc = "send"
  /\ w2c' = Append(w2c, w_result)
  /\ w_pc' = "exited"
  /\ workerEnd' = FALSE
  /\ w_args' = NullArgs
  /\ w_num_fds' = 0
  /\ w_fds' = <<>>
  /\ w_result' = NullResult
  /\ child' = NoChild
  /\ written' = NoWrites
  /\ UNCHANGED <<clientVars, processVars, pipeVars, w_nopen, customised,
                 c2w, environ>>

\* cnx.send((retcode, stdout, stderr)), and back to the top of the loop
WorkerSend ==
  /\ w_pc = "send"
  /\ w2c' = Append(w2c, w_result)
  /\ w_pc' = "recv"
  /\ w_args' = NullArgs
  /\ w_num_fds' = 0
  /\ w_fds' = <<>>
  /\ w_result' = NullResult
  /\ child' = NoChild
  /\ written' = NoWrites
  /\ UNCHANGED <<clientVars, processVars, pipeVars, w_nopen, customised,
                 c2w, workerEnd, environ>>

Next ==
  \/ Close
  \/ Enter
  \/ \E exc \in BodyExceptions : Exit(exc)
  \/ \E op \in Ops : \E kw \in CallArgs(op) : Call(op, kw)
  \/ SendFd
  \/ Recv
  \/ WorkerRecv
  \/ WorkerEof
  \/ WorkerRecvFd
  \/ PopenShell
  \/ Popen
  \/ WorkerSend

Spec == Init /\ [][Next]_vars

\* ------------------------------------------- construction and faults
\* interpreters a caller can name in Runner(python=...): one that runs lola.py,
\* one that cannot be executed
Pythons == {"python", "missing"}

\* the state before Runner() is called
FaultInit ==
  /\ cnx = "Unset"
  /\ listener = "Unset"
  /\ c_pc = "new"
  /\ c_op = ""
  /\ c_kw = NullArgs
  /\ c_fds = <<>>
  /\ outcome = NoOutcome
  /\ lastOp = ""
  /\ nCalls = 0
  /\ nCloses = 0
  /\ scope = "none"
  /\ bodyExc = ""
  /\ blockOutcome = NoOutcome
  /\ c2w = <<>>
  /\ w2c = <<>>
  /\ workerEnd = FALSE
  /\ w_pc = "unspawned"
  /\ w_args = NullArgs
  /\ w_num_fds = 0
  /\ w_fds = <<>>
  /\ w_result = NullResult
  /\ environ = WorkerEnviron
  /\ child = NoChild
  /\ written = NoWrites
  /\ nSpawned = 0
  /\ backlog = 0
  /\ w_nopen = 0
  /\ customised = FALSE
  /\ cwd = WorkerCwd
  /\ sys_argv = WorkerArgv
  /\ par_pc = "none"
  /\ ch_pc = "none"
  /\ ch_todo = <<>>
  /\ pipes = NoPipes
  /\ captured = NoPipes

\* Runner.__init__ up to listener.accept(): Listener(), then
\* subprocess.Popen([python, __file__, listener.address]), which raises
\* OSError when python cannot be executed
Construct(python) ==
  /\ c_pc = "new"
  /\ listener' = "Listener"
  /\ IF python = "missing"
       THEN /\ outcome' = Raise("OSError")
            /\ c_pc' = "failed"
            /\ UNCHANGED <<nSpawned, w_pc>>
       ELSE /\ nSpawned' = nSpawned + 1
            /\ w_pc' = "start"
            /\ c_pc' = "accept"
            /\ outcome' = outcome
  /\ UNCHANGED <<cnx, c_op, c_kw, c_fds, lastOp, nCalls, nCloses, scopeVars,
                 backlog, c2w, w2c, workerEnd, w_args, w_num_fds, w_fds,
                 w_result, environ, child, written, w_nopen, customised,
                 processVars, pipeVars>>

\* the spawned process reaches listen(): cnx = Client(address)
WorkerStart ==
  /\ w_pc = "start"
  /\ w_pc' = "recv"
  /\ workerEnd' = TRUE
  /\ backlog' = backlog + 1
  /\ UNCHANGED <<cnx, listener, c_pc, c_op, c_kw, c_fds, outcome, lastOp,
                 nCalls, nCloses, scopeVars, nSpawned, c2w, w2c, w_args,
                 w_num_fds, w_fds, w_result, environ, child, written, w_nopen,
                 customised, processVars, pipeVars>>

\* the spawned process ends before it connects (python starts but cannot run
\* lola.py, or the process is killed)
WorkerStartFails ==
  /\ w_pc = "start"
  /\ w_pc' = "crashed"
  /\ UNCHANGED <<clientVars, processVars, pipeVars, w_nopen, customised,
                 c2w, w2c, workerEnd, w_args, w_num_fds, w_fds, w_result,
                 environ, child, written>>

\* self._cnx = listener.accept(): blocks until a connection is there
Accept ==
  /\ c_pc = "accept"
  /\ backlog > 0
  /\ backlog' = backlog - 1
  /\ cnx' = "Connection"
  /\ c_pc' = "idle"
  /\ UNCHANGED <<listener, c_op, c_kw, c_fds, outcome, lastOp, nCalls,
                 nCloses, scopeVars, nSpawned, c2w, w2c, workerEnd,
                 workerVars>>

\* the worker process is killed from outside while it runs listen()
WorkerKilled ==
  /\ w_pc \in {"recv", "recvfd", "popen", "send"}
  /\ w_pc' = "killed"
  /\ workerEnd' = FALSE
  /\ w_args' = NullArgs
  /\ w_num_fds' = 0
  /\ w_fds' = <<>>
  /\ w_result' = NullResult
  /\ child' = NoChild
  /\ written' = NoWrites
  /\ w_nopen' = 0
  /\ UNCHANGED <<clientVars, processVars, pipeVars, customised, c2w, w2c,
                 environ>>

\* _multiprocessing.sendfd(...) raises OSError (the number the caller passed
\* is not an open descriptor): _call ends after the envelope and some of the
\* descriptors were sent
SendFdFails ==
  /\ c_pc = "sendfd"
  /\ outcome' = Raise("OSError")
  /\ c_fds' = <<>>
  /\ c_pc' = "idle"
  /\ c_op' = ""
  /\ c_kw' = NullArgs
  /\ UNCHANGED <<cnx, listener, lastOp, nCalls, nCloses, scopeVars, c2w, w2c,
                 workerEnd, workerVars, ctorVars>>

\* what is left of a message after recvfd took a byte of it
Garbage == [type |-> "garbage", args |-> NullArgs, num_fds |-> 0, fd |-> NoFile]

\* _multiprocessing.recvfd(cnx.fileno()) when what arrives is not a descriptor
\* (the first byte of the next envelope, or end-of-stream): recvmsg() returns
\* without ancillary data; recvfd either raises, which ends the worker, or
\* returns the number it finds in its uninitialised control buffer
WorkerRecvFdNoRights(returns) ==
  /\ w_pc = "recvfd"
  /\ \/ c2w # <<>> /\ Head(c2w).type \in {"req", "garbage"}
     \/ c2w = <<>> /\ cnx = "None"
  /\ c2w' = IF c2w = <<>> THEN c2w ELSE <<Garbage>> \o Tail(c2w)
  /\ IF returns
       THEN /\ w_fds' = Append(w_fds, WrongFile)
            /\ w_pc' = IF Len(w_fds) + 1 = w_num_fds THEN "popen" ELSE "recvfd"
            /\ UNCHANGED <<w_args, w_num_fds, w_nopen, workerEnd>>
       ELSE /\ w_pc' = "crashed"
            /\ workerEnd' = FALSE
            /\ w_args' = NullArgs
            /\ w_num_fds' = 0
            /\ w_fds' = <<>>
            /\ w_nopen' = 0
  /\ UNCHANGED <<clientVars, processVars, pipeVars, customised, w2c,
                 w_result, environ, child, written>>

\* cnx.recv() on a stream that no longer starts at a message boundary: the
\* worker ends with the unpickling error
WorkerRecvGarbage ==
  /\ w_pc = "recv"
  /\ c2w # <<>>
  /\ Head(c2w).type = "garbage"
  /\ w_pc' = "crashed"
  /\ workerEnd' = FALSE
  /\ w_nopen' = 0
  /\ UNCHANGED <<clientVars, processVars, pipeVars, customised, c2w, w2c,
                 w_args, w_num_fds, w_fds, w_result, environ, child, written>>

\* the requests issued where faults are explored: two scripts, with and
\* without files and captures
FaultCallArgs(op) ==
  {kw \in CallArgs(op) :
     /\ kw.script \in {"success", "fail"}
     /\ ~kw.shell
     /\ ~kw.env.given
     /\ kw.cwd = NoCwd
     /\ kw.stdin = NoFile
     /\ kw.stderr \in {NoFile, CallerErr}}

FaultNext ==
  \/ \E python \in Pythons : Construct(python)
  \/ WorkerStart
  \/ WorkerStartFails
  \/ Accept
  \/ Close
  \/ \E op \in Ops : \E kw \in FaultCallArgs(op) : Call(op, kw)
  \/ SendFd
  \/ SendFdFails
  \/ Recv
  \/ WorkerRecv
  \/ WorkerEof
  \/ WorkerRecvFd
  \/ \E returns \in BOOLEAN : WorkerRecvFdNoRights(returns)
  \/ WorkerRecvGarbage
  \/ Popen
  \/ WorkerSend
  \/ WorkerKilled

\* the Runner from before its construction, with the faults of its
\* environment
FaultSpec == FaultInit /\ [][FaultNext]_vars

\* ------------------------------------------------ one job, step by step
\* Popen above is one step: the scripts of Body write less than a pipe holds.
\* Here the same lines of listen() are taken apart for a job with
\* stdout=PIPE and stderr=PIPE whose body writes any sequence of chunks.

\* the request of that job
PipeJob ==
  [script |-> "writer", stdin |-> NoFile, stdout |-> PIPE, stderr |-> PIPE,
   shell |-> FALSE, env |-> NoEnv, cwd |-> NoCwd]

\* the sequences of at most n writes, each to one of the two pipes
RECURSIVE WriteSeqs(_)
WriteSeqs(n) ==
  IF n = 0 THEN {<<>>}
  ELSE WriteSeqs(n - 1)
         \cup {Append(q, d) : q \in WriteSeqs(n - 1), d \in {PipeOut, PipeErr}}

\* n chunks, as bytes
RECURSIVE Chunks(_)
Chunks(n) == IF n = 0 THEN <<>> ELSE Append(Chunks(n - 1), "c")

\* the worker has received the request and is about to call _PyPopen; the
\* caller waits in recv()
PipeInit ==
  /\ cnx = "Connection"
  /\ listener = "Listener"
  /\ c_pc = "recv"
  /\ c_op = "call"
  /\ c_kw = PipeJob
  /\ c_fds = <<>>
  /\ outcome = Pending
  /\ lastOp = "call"
  /\ nCalls = 1
  /\ nCloses = 0
  /\ scope = "none"
  /\ bodyExc = ""
  /\ blockOutcome = NoOutcome
  /\ c2w = <<>>
  /\ w2c = <<>>
  /\ workerEnd = TRUE
  /\ w_pc = "popen"
  /\ w_args = PipeJob
  /\ w_num_fds = 0
  /\ w_fds = <<>>
  /\ w_result = NullResult
  /\ environ = WorkerEnviron
  /\ child = NoChild
  /\ written = NoWrites
  /\ nSpawned = 1
  /\ backlog = 0
  /\ w_nopen = 0
  /\ customised = FALSE
  /\ cwd = WorkerCwd
  /\ sys_argv = WorkerArgv
  /\ par_pc = "fork"
  /\ ch_pc = "none"
  /\ ch_todo \in WriteSeqs(MaxWrites)
  /\ pipes = NoPipes
  /\ captured = NoPipes

\* everything but the worker's position, its result and the pipes
pipeFrame ==
  <<clientVars, c2w, w2c, workerEnd, w_args, w_num_fds, w_fds, environ, child,
    written, w_nopen, customised, processVars>>

\* subprocess.Popen.__init__: the pipes are made, fork(); the parent goes on
\* to read the error pipe, whose other end the child holds until it execs
\* or exits
PipeFork ==
  /\ par_pc = "fork"
  /\ par_pc' = "errpipe"
  /\ ch_pc' = "running"
  /\ UNCHANGED <<pipeFrame, w_pc, w_result, ch_todo, pipes, captured>>

\* the child (exec_python: execfile, sys.stdout.flush(), stderr output)
\* writes its next chunk; write() blocks while the pipe is full
ChildWrite ==
  /\ ch_pc = "running"
  /\ ch_todo # <<>>
  /\ pipes[Head(ch_todo)] < PipeCapacity
  /\ pipes' = [pipes EXCEPT ![Head(ch_todo)] = @ + 1]
  /\ ch_todo' = Tail(ch_todo)
  /\ UNCHANGED <<pipeFrame, w_pc, w_result, par_pc, ch_pc, captured>>

\* os._exit(...) in every arm of exec_python: the child never execs
ChildExit ==
  /\ ch_pc = "running"
  /\ ch_todo = <<>>
  /\ ch_pc' = "exited"
  /\ UNCHANGED <<pipeFrame, w_pc, w_result, par_pc, ch_todo, pipes, captured>>

\* the read of the error pipe returns (end-of-file: the child is gone) and
\* _PyPopen(...) returns
PopenReturns ==
  /\ par_pc = "errpipe"
  /\ ch_pc = "exited"
  /\ par_pc' = "communicate"
  /\ UNCHANGED <<pipeFrame, w_pc, w_result, ch_pc, ch_todo, pipes, captured>>

\* proc.communicate() reads what one of the pipes holds
CommunicateRead(d) ==
  /\ par_pc = "communicate"
  /\ pipes[d] > 0
  /\ captured' = [captured EXCEPT ![d] = @ + pipes[d]]
  /\ pipes' = [pipes EXCEPT ![d] = 0]
  /\ UNCHANGED <<pipeFrame, w_pc, w_result, par_pc, ch_pc, ch_todo>>

\* both pipes are at end-of-file: communicate() waits for the child and
\* returns; retcode = proc.poll()
CommunicateDone ==
  /\ par_pc = "communicate"
  /\ ch_pc = "exited"
  /\ \A d \in DOMAIN pipes : pipes[d] = 0
  /\ par_pc' = "done"
  /\ w_result' = [retcode |-> 0,
                  stdout |-> Bytes(Chunks(captured[PipeOut])),
                  stderr |-> Bytes(Chunks(captured[PipeErr]))]
  /\ w_pc' = "send"
  /\ UNCHANGED <<pipeFrame, ch_pc, ch_todo, pipes, captured>>

PipeNext ==
  \/ PipeFork
  \/ ChildWrite
  \/ ChildExit
  \/ PopenReturns
  \/ \E d \in {PipeOut, PipeErr} : CommunicateRead(d)
  \/ CommunicateDone
  \/ WorkerSend
  \/ Recv

PipeSpec == PipeInit /\ [][PipeNext]_vars

\* The worker is a process of its own, blocked in cnx.recv(): once the caller's
\* end is closed the operating system delivers end-of-stream to it and it runs
\* on, whatever the caller does.
LiveSpec == Spec /\ WF_vars(WorkerEof)

\* ================================================================== claims
Range(seq) == {seq[i] : i \in DOMAIN seq}

\* the step in which the caller's pending operation ends
Finishes == c_pc = "recv" /\ c_pc' = "idle"

\* the termination of the script the caller's pending operation asked for
AskedTerm == Body(c_kw.script).term

\* the exit code the specification assigns to a termination (codes outside
\* 0..255 are left unassigned)
HasSpecCode(term) == term.kind = "exit_int" => term.code \in 0 .. 255
SpecCode(term) ==
  CASE term.kind = "exit_int" -> term.code
    [] term.kind \in {"exit_none", "normal"} -> 0
    [] term.kind = "exit_reason" -> 1
    [] term.kind = "fault" -> 255

\* the data a script writes to one of its streams, in program order
RECURSIVE StreamData(_, _)
StreamData(writes, stream) ==
  IF writes = <<>> THEN <<>>
  ELSE (IF Head(writes)[1] = stream THEN <<Head(writes)[2]>> ELSE <<>>)
         \o StreamData(Tail(writes), stream)

IsFile(fp) == fp \notin {NoFile, PIPE, STDOUT}

\* the files among the caller's stdin, stdout, stderr arguments, in that order
FilesInOrder(kw) ==
  (IF IsFile(kw.stdin) THEN <<kw.stdin>> ELSE <<>>)
    \o (IF IsFile(kw.stdout) THEN <<kw.stdout>> ELSE <<>>)
    \o (IF IsFile(kw.stderr) THEN <<kw.stderr>> ELSE <<>>)

\* ---------------------------------------------------------------------- C1
\* C1: once close() has completed, every later operation (close, call,
\* check_call, check_output, and the close() of a with-exit) raises
\* ValueError('Runner is closed'), puts nothing on the control channel, and
\* no child is forked for it; the handle stays closed.
C1_ClosedRunnerRaises ==
  [][cnx = "None" =>
       /\ cnx' = "None"
       /\ c2w' = c2w
       /\ c_pc' = "idle"
       /\ child' = child
       /\ w_pc' \notin {"recvfd", "popen", "send"}
       /\ (lastOp' # lastOp \/ nCalls' # nCalls \/ outcome' # outcome)
            => outcome' = Raise(RunnerClosed)
       /\ scope' # scope => blockOutcome' = Raise(RunnerClosed)]_vars

\* a check_output on a closed handle has raised
C1_Witness ==
  /\ cnx = "None"
  /\ nCloses = 1
  /\ lastOp = "check_output"
  /\ outcome = Raise(RunnerClosed)

\* ---------------------------------------------------------------------- C2
\* C2 as stated: after the with block the handle was closed exactly once, is
\* closed, and an exception of the body is what the with statement raises.
C2_Original ==
  scope = "left" =>
    /\ nCloses = 1
    /\ cnx = "None"
    /\ bodyExc # "" => blockOutcome = Raise(bodyExc)

\* C2 amended: leaving the with block, close() has succeeded exactly once and
\* the handle is closed; if the body had not closed the handle itself, the
\* block exit performs that close and the body's exception (if any)
\* propagates unchanged; if the body had already closed it, the close() of
\* the block exit raises ValueError('Runner is closed') and that is what the
\* with statement raises.
C2_WithBlockCloses ==
  [][(scope = "body" /\ scope' = "left") =>
       /\ nCloses' = 1
       /\ cnx' = "None"
       /\ listener' = "None"
       /\ IF cnx = "Connection"
            THEN /\ nCloses = 0
                 /\ blockOutcome' =
                      IF bodyExc' = "" THEN ReturnNone ELSE Raise(bodyExc')
            ELSE /\ nCloses = 1
                 /\ blockOutcome' = Raise(RunnerClosed)]_vars

\* the body raised KeyError on an open handle and the block was left
C2_Witness ==
  /\ scope = "left"
  /\ bodyExc = "KeyError"
  /\ blockOutcome = Raise("KeyError")
  /\ nCloses = 1
  /\ cnx = "None"

\* ---------------------------------------------------------------------- C3
\* C3: when the script of a call() exits with an integer code N in 0..255,
\* call() returns exactly N (and for the other terminations the code C6
\* assigns to them); call() never raises CalledProcessError.
C3_CallReturnsExitCode ==
  [][(Finishes /\ c_op = "call") =>
       /\ outcome'.exc # "CalledProcessError"
       /\ (~c_kw.shell /\ AskedTerm.kind = "exit_int"
             /\ AskedTerm.code \in 0 .. 255)
            => outcome' = ReturnInt(AskedTerm.code)
       /\ (~c_kw.shell /\ HasSpecCode(AskedTerm))
            => outcome' = ReturnInt(SpecCode(AskedTerm))]_vars

\* call() has returned 255 for a script that exits 255
C3_Witness ==
  /\ lastOp = "call"
  /\ c_pc = "idle"
  /\ outcome = ReturnInt(255)

\* ---------------------------------------------------------------------- C4
\* C4: with N the exit code of the job, check_call() raises
\* CalledProcessError with returncode N if and only if N # 0, and returns 0
\* when N = 0.
C4_CheckCallRaisesIffNonZero ==
  [][(Finishes /\ c_op = "check_call" /\ ~c_kw.shell
        /\ HasSpecCode(AskedTerm)) =>
       IF SpecCode(AskedTerm) # 0
         THEN outcome' = CalledProcessError(SpecCode(AskedTerm), NoBytes)
         ELSE outcome' = ReturnInt(0)]_vars

\* check_call() has raised CalledProcessError(1) for the failing script
C4_Witness ==
  /\ lastOp = "check_call"
  /\ c_pc = "idle"
  /\ outcome = CalledProcessError(1, NoBytes)

\* ---------------------------------------------------------------------- C5
\* C5: every request of a check_output() carries stdout = PIPE; when the job
\* exits 0 check_output() returns the stdout bytes the worker captured, which
\* (stderr not being merged in) are the bytes the script wrote to stdout; when
\* it exits N # 0 it raises CalledProcessError with returncode N and those
\* bytes as output.
C5_CheckOutput ==
  [][/\ (c_op' = "check_output") =>
          /\ c_kw'.stdout = PIPE
          /\ \A i \in DOMAIN c2w' :
               c2w'[i].type = "req" => c2w'[i].args.stdout = PIPE
          /\ w_pc' \in {"recvfd", "popen", "send"} => w_args'.stdout = PIPE
     /\ (Finishes /\ c_op = "check_output" /\ ~c_kw.shell
           /\ HasSpecCode(AskedTerm)) =>
          /\ w2c # <<>>
          /\ Head(w2c).stdout.some
          /\ c_kw.stderr # STDOUT =>
               Head(w2c).stdout.data
                 = StreamData(Body(c_kw.script).writes, "out")
          /\ IF SpecCode(AskedTerm) = 0
               THEN outcome' = ReturnBytes(Head(w2c).stdout)
               ELSE outcome' =
                      CalledProcessError(SpecCode(AskedTerm), Head(w2c).stdout)
    ]_vars

\* check_output() has raised for the failing script, with its output attached
C5_Witness ==
  /\ lastOp = "check_output"
  /\ c_pc = "idle"
  /\ outcome = CalledProcessError(1, Bytes(<<"f">>))

\* ---------------------------------------------------------------------- C6
\* C6: the exit code the worker reports for a job is determined by how the
\* script terminates: sys.exit(N) with N in 0..255 reports N; sys.exit() and
\* running to the end report 0; sys.exit(reason) puts the reason on the job's
\* stderr and reports 1; any other exception puts a traceback on the job's
\* stderr and reports 255.
C6_ExitCodeMapping ==
  w_pc = "send" =>
    LET t == Body(w_args.script).term
        err == written[child.stdio[3]]
    IN  /\ child.forked
        /\ (t.kind = "exit_int" /\ t.code \in 0 .. 255)
             => w_result.retcode = t.code
        /\ t.kind \in {"exit_none", "normal"} => w_result.retcode = 0
        /\ t.kind = "exit_reason"
             => (w_result.retcode = 1 /\ ReasonText \in Range(err))
        /\ t.kind = "fault"
             => (w_result.retcode = 255 /\ Traceback \in Range(err))
        /\ t.kind \in {"exit_int", "exit_none", "normal"}
             => (ReasonText \notin Range(err) /\ Traceback \notin Range(err))

\* the worker is about to report 255 for a script that raised
C6_Witness ==
  /\ w_pc = "send"
  /\ Body(w_args.script).term.kind = "fault"
  /\ w_result.retcode = 255
  /\ Traceback \in Range(written[child.stdio[3]])

\* ---------------------------------------------------------------------- C7
\* C7: a request with shell=True ends, for the caller of call / check_call /
\* check_output, with the ValueError of _PyPopen.__init__, and no child is
\* forked for it.
C7_ShellRejected ==
  [][(Finishes /\ c_kw.shell) =>
       (outcome' = Raise("ValueError") /\ ~child.forked)]_vars

\* ---------------------------------------------------------------------- C8
\* C8: a script that fails (sys.exit(N) with N in 1..255, sys.exit(reason), an
\* unhandled exception) gives the caller's operation a result with a nonzero
\* return code and not a transport error, with the worker back at cnx.recv()
\* on the open connection; and the worker leaves its loop only on
\* end-of-stream after close() or through the ValueError of a shell request.
IsFailure(term) ==
  \/ term.kind = "exit_int" /\ term.code \in 1 .. 255
  \/ term.kind \in {"exit_reason", "fault"}

C8_JobFaultIsJobResult ==
  [][/\ (Finishes /\ ~c_kw.shell /\ IsFailure(AskedTerm)) =>
          /\ w2c # <<>>
          /\ Head(w2c).retcode # 0
          /\ outcome'.exc \notin {"EOFError", "IOError", "ValueError"}
          /\ outcome'.kind = "raise" => outcome'.code # 0
          /\ outcome'.kind = "return_int" => outcome'.code # 0
          /\ w_pc' = "recv"
          /\ workerEnd'
     /\ (workerEnd /\ ~workerEnd') => (cnx = "None" \/ w_args.shell)
     /\ (w_pc = "send" /\ w_pc' # "send") => (w_pc' = "recv" /\ workerEnd')
    ]_vars

\* the second job on the handle raised an exception in its script and call()
\* returned 255, the worker waiting for the next request
C8_Witness ==
  /\ nCalls = 2
  /\ lastOp = "call"
  /\ c_pc = "idle"
  /\ outcome = ReturnInt(255)
  /\ w_pc = "recv"
  /\ workerEnd

\* ---------------------------------------------------------------------- C9
\* C9: the request carries num_fds = the number of files among the caller's
\* stdin, stdout, stderr; the worker receives exactly those files in that
\* order; the child's stream of each such slot is the file the caller gave
\* for that slot; and, stderr not being merged into stdout, the file given for
\* stdout (stderr) receives exactly the bytes the job wrote to stdout (stderr).
C9_DescriptorWiring ==
  /\ \A i \in DOMAIN c2w :
       c2w[i].type = "req" => c2w[i].num_fds = Len(FilesInOrder(c_kw))
  /\ w_pc \in {"recvfd", "popen", "send"} =>
       /\ w_num_fds = Len(FilesInOrder(c_kw))
       /\ w_fds = SubSeq(FilesInOrder(c_kw), 1, Len(w_fds))
       /\ w_pc # "recvfd" => w_fds = FilesInOrder(c_kw)
  /\ child.forked =>
       /\ IsFile(c_kw.stdin) => child.stdio[1] = c_kw.stdin
       /\ IsFile(c_kw.stdout) => child.stdio[2] = c_kw.stdout
       /\ IsFile(c_kw.stderr) => child.stdio[3] = c_kw.stderr
       /\ (IsFile(c_kw.stdout) /\ c_kw.stderr # STDOUT) =>
            written[c_kw.stdout]
              = StreamData(Body(c_kw.script).writes, "out")
       /\ IsFile(c_kw.stderr) =>
            written[c_kw.stderr]
              = StreamData(Body(c_kw.script).writes, "err")
                  \o StderrEpilogue(Body(c_kw.script).term)

\* stdin, stdout and stderr all given as files: the job has run with its
\* output in the stdout file and its error output in the stderr file
C9_Witness ==
  /\ child.forked
  /\ c_kw.script = "output"
  /\ c_kw.stdin = CallerIn
  /\ child.stdio = <<CallerIn, CallerOut, CallerErr>>
  /\ written[CallerOut] = <<"o">>
  /\ written[CallerErr] = <<"e">>

\* --------------------------------------------------------------------- C10
\* C10: a job submitted with env= observes exactly that mapping as its
\* environment; a job submitted without env observes the worker's inherited
\* environment.
C10_JobEnvironment ==
  child.forked =>
    IF c_kw.env.given
      THEN /\ DOMAIN child.environ = DOMAIN c_kw.env.map
           /\ \A k \in DOMAIN c_kw.env.map : child.environ[k] = c_kw.env.map[k]
      ELSE /\ DOMAIN child.environ = DOMAIN WorkerEnviron
           /\ \A k \in DOMAIN WorkerEnviron : child.environ[k] = WorkerEnviron[k]

\* a job given env={K: v, N: n} runs without the worker's PARENT key
C10_Witness ==
  /\ child.forked
  /\ c_kw.env.given
  /\ DOMAIN child.environ = {"K", "N"}
  /\ child.environ["K"] = "v"
  /\ "PARENT" \in DOMAIN environ


\* --------------------------------------------------------------------- C11
\* everything a script writes to sys.stdout and sys.stderr, in program order
RECURSIVE ProgramOrder(_)
ProgramOrder(writes) ==
  IF writes = <<>> THEN <<>>
  ELSE (IF Head(writes)[1] \in {"out", "err"} THEN <<Head(writes)[2]>> ELSE <<>>)
         \o ProgramOrder(Tail(writes))

\* no write to sys.stderr happens while written sys.stdout data is unflushed
RECURSIVE Synced(_, _)
Synced(writes, pending) ==
  IF writes = <<>> THEN TRUE
  ELSE CASE Head(writes)[1] = "out" -> Synced(Tail(writes), TRUE)
         [] Head(writes)[1] = "flush" -> Synced(Tail(writes), FALSE)
         [] Head(writes)[1] = "err" -> ~pending /\ Synced(Tail(writes), FALSE)

\* the job being served runs with stderr=STDOUT
Merged == child.forked /\ c_kw.stderr = STDOUT

C12_OpenClosed ==
  [][/\ cnx \in {"Connection", "None"}
     /\ cnx' \in {"Connection", "None"}
     /\ (cnx = "None") = (listener = "None")
     /\ cnx' # cnx =>
          /\ cnx = "Connection"
          /\ cnx' = "None"
          /\ nCloses' = nCloses + 1
          /\ (lastOp' = "close" \/ (scope = "body" /\ scope' = "left"))
     /\ cnx = "None" => cnx' = "None"
     /\ (nCalls' # nCalls \/ c_pc' # c_pc) => cnx' = cnx]_vars

\* a call has ended with EOFError and the handle is still Open
C12_Witness ==
  /\ cnx = "Connection"
  /\ c_pc = "idle"
  /\ outcome = Raise("EOFError")
  /\ ~workerEnd

\* --------------------------------------------------------------------- C17
\* the worker holds a request it has received and not yet answered
Serving == w_pc \in {"recvfd", "popen", "send"}

\* requests sent and not yet answered to the caller
Outstanding ==
  Cardinality({i \in DOMAIN c2w : c2w[i].type = "req"})
    + (IF Serving THEN 1 ELSE 0) + Len(w2c)

\* C17: with one sequential caller at most one request is outstanding; the
\* worker sends a result only for a request it is serving, to a caller waiting
\* for it, and it ends the service of every request it received by sending
\* exactly one result; the result the k-th call returns is that of the k-th
\* job (the exit status of the script it named, with the captures it asked
\* for).
C17_Alternation ==
  [][/\ Outstanding <= 1
     /\ Outstanding' <= 1
     /\ Len(w2c') > Len(w2c) =>
          /\ w_pc = "send"
          /\ c_pc = "recv"
          /\ Len(w2c') = 1
     /\ (Serving /\ ~Serving') => Len(w2c') = Len(w2c) + 1
     /\ (Finishes /\ w2c # <<>>) =>
          /\ Head(w2c).retcode = ExitStatus(AskedTerm)
          /\ Head(w2c).stdout.some = (CallKwargs(c_op, c_kw).stdout = PIPE)
          /\ Head(w2c).stderr.some = (c_kw.stderr = PIPE)
          /\ outcome' = Finish(c_op, Head(w2c))
    ]_vars

\* --------------------------------------------------------------------- C18
\* C18: once the handle is closed while the worker waits for a request, the
\* worker eventually leaves its loop and ends; it does so in a step of its own
\* on end-of-stream, close() itself leaves the worker process alone; and while
\* the caller's end is open the worker leaves its loop for no request but a
\* shell=True one (which is not a request _PyPopen accepts).
C18_WorkerEndsOnEof ==
  /\ (cnx = "None" /\ w_pc = "recv") ~> (w_pc = "exited")
  /\ [][/\ (w_pc # "exited" /\ w_pc' = "exited") =>
             /\ w_pc = "recv"
             /\ c2w = <<>>
             /\ cnx = "None"
             /\ cnx' = "None"
        /\ cnx' # cnx => (w_pc' = w_pc /\ workerEnd' = workerEnd)
        /\ (workerEnd /\ ~workerEnd') => (cnx = "None" \/ w_args.shell)
       ]_vars

\* the handle was closed after a job was served, and the worker has ended
C18_Witness ==
  /\ cnx = "None"
  /\ nCalls >= 1
  /\ outcome.kind \in {"return_int", "return_none", "return_bytes"}
  /\ lastOp = "close"
  /\ w_pc = "exited"
  /\ ~workerEnd

\* --------------------------------------------------------------------- C16
\* C16: once the worker has sent the result of a job and is back at the top
\* of its loop, it holds no open descriptor that it received for a job,
\* however many jobs it has served.
C16_DescriptorsClosed ==
  w_pc = "recv" => w_nopen = 0

\* --------------------------------------------------------------------- C20
\* C20: the worker's own environment, working directory and argument vector
\* are those it started with, whatever jobs it has run; the child of a job
\* has the job's script as its argument vector and the job's cwd and env if
\* it was given them, and the worker's original working directory and
\* environment if it was not, also after a job that was given both.
C20_JobsIsolated ==
  /\ environ = WorkerEnviron
  /\ cwd = WorkerCwd
  /\ sys_argv = WorkerArgv
  /\ child.forked =>
       /\ child.argv = <<c_kw.script>>
       /\ c_kw.cwd # NoCwd => child.cwd = c_kw.cwd
       /\ c_kw.cwd = NoCwd => child.cwd = WorkerCwd
       /\ ~c_kw.env.given => child.environ = WorkerEnviron
       /\ c_kw.env.given =>
            /\ DOMAIN child.environ = DOMAIN c_kw.env.map
            /\ "PARENT" \notin DOMAIN child.environ

\* the second job, given neither env nor cwd, runs in the worker's directory
\* and environment after a first job that was given both
C20_Witness ==
  /\ customised
  /\ nCalls = 2
  /\ child.forked
  /\ ~c_kw.env.given
  /\ c_kw.cwd = NoCwd
  /\ child.cwd = WorkerCwd
  /\ child.environ = WorkerEnviron
  /\ environ = WorkerEnviron

\* --------------------------------------------------------------------- C13
\* the faults a call ends with when the connection to the worker is broken
TransportFaults == {"EOFError", "IOError", "OSError"}

\* the worker process has ended
WorkerGone == w_pc \in {"exited", "crashed", "killed"}

\* C13: once the worker is gone from an Open handle without having sent a
\* result that is still to be read, the call in flight ends, and can end,
\* with a transport fault, every call started later ends at once with a
\* transport fault, and none returns a result; no worker is ever spawned
\* besides the one of the construction and a worker that is gone stays gone.
C13_WorkerLoss ==
  /\ []((WorkerGone /\ cnx = "Connection" /\ w2c = <<>>) =>
          /\ c_pc = "recv" => ENABLED Recv
          /\ c_pc = "sendfd" => ENABLED SendFd)
  /\ [][/\ (WorkerGone /\ cnx = "Connection" /\ w2c = <<>>) =>
             /\ (c_pc # "idle" /\ c_pc' = "idle") =>
                  (outcome'.kind = "raise" /\ outcome'.exc \in TransportFaults)
             /\ nCalls' # nCalls =>
                  /\ c_pc' = "idle"
                  /\ outcome'.kind = "raise"
                  /\ outcome'.exc \in TransportFaults
             /\ c2w' = c2w
        /\ WorkerGone => (WorkerGone' /\ ~workerEnd')
        /\ nSpawned' >= nSpawned
        /\ nSpawned' <= 1
        /\ cnx = "Connection" => nSpawned = 1
       ]_vars

\* the worker was killed while it served the first call, which ended with
\* EOFError; the second call on the handle ended with IOError
C13_Witness ==
  /\ w_pc = "killed"
  /\ cnx = "Connection"
  /\ nCalls = 2
  /\ c_pc = "idle"
  /\ outcome = Raise("IOError")
  /\ nSpawned = 1

\* --------------------------------------------------------------------- C14
\* C14: a construction that has returned has returned an Open handle
\* connected to the one worker it spawned; one that failed ended with an
\* exception; and a construction waiting in accept() is not stuck: the worker
\* is still starting or its connection is there to be accepted.
C14_ConstructionEnds ==
  /\ c_pc \in {"idle", "sendfd", "recv"} =>
       /\ cnx \in {"Connection", "None"}
       /\ nSpawned = 1
  /\ c_pc = "failed" => (outcome.kind = "raise" /\ cnx = "Unset")
  /\ c_pc = "accept" => (w_pc = "start" \/ ENABLED Accept)

\* --------------------------------------------------------------------- C15
\* the descriptors that can be transferred for a job
Transferable == {CallerIn, CallerOut, CallerErr}

\* C15: the worker runs a job only when it holds exactly num_fds descriptors
\* for it, each one a descriptor the caller transferred, and every stream of
\* the child that the request maps to a transferred descriptor is that
\* descriptor; this also when a transfer stopped half way and the caller
\* went on to a further call.
C15_AtomicEnvelope ==
  (w_pc \in {"popen", "send"} \/ child.forked) =>
    /\ Len(w_fds) = w_num_fds
    /\ \A i \in DOMAIN w_fds : w_fds[i] \in Transferable
    /\ child.forked => \A i \in 1 .. 3 : child.stdio[i] # WrongFile

\* --------------------------------------------------------------------- C19
\* the child is inside a write() to a pipe that is full
ChildBlocked ==
  /\ ch_pc = "running"
  /\ ch_todo # <<>>
  /\ pipes[Head(ch_todo)] >= PipeCapacity

\* C19: for a job with stdout and stderr both captured, whatever the body
\* writes: the child is never blocked on a full pipe unless the worker is
\* reading the pipes, and until the worker has the job's result some step of
\* the child or of the worker's drain-and-wait can be taken.
C19_DrainCompletes ==
  /\ ChildBlocked => par_pc = "communicate"
  /\ par_pc \in {"fork", "errpipe", "communicate"} => ENABLED PipeNext
====
